---- MODULE Spec2Model ----
(***************************************************************************)
(* Model of pol.py (Polity Concept Linker): the chapter search             *)
(* search_concepts_in_file, the text-to-PDF routine create_pdf and the     *)
(* control flow of main.                                                   *)
(*                                                                         *)
(* A text is a sequence of characters; a character is a string naming it   *)
(* ("a", " ", "\n", ...).  EMOJI names one character above code point 126. *)
(***************************************************************************)
EXTENDS Integers, Sequences, FiniteSets, TLC

VARIABLES
    content,     \* search: the content parameter / the text read (None before)
    fileText,    \* search: what is stored under file_path (None: no such file)
    query,       \* search: the query parameter
    chapters,    \* search: result of re.split
    idx,         \* search: position of the for loop in chapters
    results,     \* search: the results list
    spc,         \* search: program counter
    text,        \* create_pdf: the text parameter
    title,       \* create_pdf: the query parameter (used for the title)
    lineNo,      \* create_pdf: position of the for loop in lines
    blocks,      \* create_pdf: what has been handed to the layout engine
    injected,    \* create_pdf: an engine call has faulted for a reason outside the input
    presult,     \* create_pdf: the returned pair
    ppc,         \* create_pdf: program counter
    mquery,      \* main: the text of the search box
    search_btn,  \* main: "Link Concepts" pressed in this run
    affair_btn,  \* main: "Current Affair" pressed in this run
    api_key,     \* main: the sidebar key ("" when not given)
    uploaded,    \* main: the uploaded file's text, or None
    calls,       \* main: the helper calls made in this run, in order
    shown,       \* main: the messages shown in this run, in order
    bundled,     \* main: the text of the local pol.txt, or None when it is missing
    ret,         \* main: the value returned by the last helper call
    mpc          \* main: program counter

svars == <<content, fileText, query, chapters, idx, results, spc>>
pvars == <<text, title, lineNo, blocks, injected, presult, ppc>>
mvars == <<mquery, search_btn, affair_btn, api_key, uploaded, calls, shown, bundled, ret, mpc>>
vars == <<svars, pvars, mvars>>

\* Python's None; a tuple, so that it compares with texts, and no text (its element is no character)
None == <<"None">>

(***************************************************************************)
(* Bounds                                                                  *)
(***************************************************************************)
MaxLines == 3
MaxPdfLines == 2

(***************************************************************************)
(* Characters and the str methods the program uses                         *)
(***************************************************************************)
NL == "\n"
TAB == "\t"
EMOJI == "U+1F600"

Upper == <<"A","B","C","D","E","F","G","H","I","J","K","L","M",
           "N","O","P","Q","R","S","T","U","V","W","X","Y","Z">>
Lower == <<"a","b","c","d","e","f","g","h","i","j","k","l","m",
           "n","o","p","q","r","s","t","u","v","w","x","y","z">>
Digits == {"0","1","2","3","4","5","6","7","8","9"}
Whitespace == {" ", NL, TAB, "\r"}

\* ord(c) for the characters of the model
ord(c) ==
    CASE c = TAB -> 9
      [] c = NL -> 10
      [] c = "\r" -> 13
      [] c = " " -> 32
      [] c = "#" -> 35
      [] c = "*" -> 42
      [] c = "-" -> 45
      [] c = ":" -> 58
      [] c \in Digits -> 48 + (CHOOSE d \in 0..9 : <<"0","1","2","3","4","5","6","7","8","9">>[d + 1] = c)
      [] \E i \in 1..26 : Upper[i] = c -> 64 + (CHOOSE i \in 1..26 : Upper[i] = c)
      [] \E i \in 1..26 : Lower[i] = c -> 96 + (CHOOSE i \in 1..26 : Lower[i] = c)
      [] c = EMOJI -> 128512

lowerChar(c) ==
    IF \E i \in 1..26 : Upper[i] = c
    THEN Lower[CHOOSE i \in 1..26 : Upper[i] = c]
    ELSE c

\* str.lower()
lower(s) == [i \in 1..Len(s) |-> lowerChar(s[i])]

\* s[p:].startswith(pat), p counted from 1
StartsWithAt(s, p, pat) ==
    /\ p + Len(pat) - 1 <= Len(s)
    /\ \A i \in 1..Len(pat) : s[p + i - 1] = pat[i]

\* str.startswith
startswith(s, pat) == StartsWithAt(s, 1, pat)

\* pat in s
IsSubstring(pat, s) == \E p \in 1..(Len(s) - Len(pat) + 1) : StartsWithAt(s, p, pat)

\* str.strip()
strip(s) ==
    LET keep == {i \in 1..Len(s) : s[i] \notin Whitespace}
    IN  IF keep = {} THEN <<>>
        ELSE SubSeq(s, CHOOSE i \in keep : \A j \in keep : i <= j,
                       CHOOSE i \in keep : \A j \in keep : j <= i)

\* str.lstrip(ch) for one character ch
lstrip(s, ch) ==
    LET keep == {i \in 1..Len(s) : s[i] # ch}
    IN  IF keep = {} THEN <<>>
        ELSE SubSeq(s, CHOOSE i \in keep : \A j \in keep : i <= j, Len(s))

\* first index >= p whose character is outside S (Len(s)+1 when there is none)
RunEnd(s, p, S) ==
    CHOOSE e \in p..(Len(s) + 1) :
        /\ \A i \in p..(e - 1) : s[i] \in S
        /\ (e <= Len(s) => s[e] \notin S)

\* str.split('\n')
RECURSIVE split_nl(_)
split_nl(s) ==
    IF \E i \in 1..Len(s) : s[i] = NL
    THEN LET i == CHOOSE i \in 1..Len(s) : s[i] = NL /\ \A j \in 1..(i - 1) : s[j] # NL
         IN  <<SubSeq(s, 1, i - 1)>> \o split_nl(SubSeq(s, i + 1, Len(s)))
    ELSE <<s>>

\* str.replace(pat, '') : leftmost non-overlapping occurrences removed
RECURSIVE remove_all(_, _)
remove_all(s, pat) ==
    IF s = <<>> THEN <<>>
    ELSE IF StartsWithAt(s, 1, pat)
         THEN remove_all(SubSeq(s, Len(pat) + 1, Len(s)), pat)
         ELSE <<s[1]>> \o remove_all(SubSeq(s, 2, Len(s)), pat)

\* '\n'.join(lines)
RECURSIVE join_nl(_)
join_nl(ls) ==
    IF Len(ls) = 0 THEN <<>>
    ELSE IF Len(ls) = 1 THEN ls[1]
    ELSE ls[1] \o <<NL>> \o join_nl(Tail(ls))

\* all sequences over S of length lo..hi
SeqsOf(S, lo, hi) == UNION {[1..n -> S] : n \in lo..hi}

(***************************************************************************)
(* search_concepts_in_file                                                 *)
(***************************************************************************)
CHAPTER_ == <<"C","H","A","P","T","E","R"," ">>
UnknownChapter == <<"U","n","k","n","o","w","n"," ","C","h","a","p","t","e","r">>

\* the pattern CHAPTER \d+ matches at position p
MarkerAt(s, p) ==
    /\ StartsWithAt(s, p, CHAPTER_)
    /\ p + Len(CHAPTER_) <= Len(s)
    /\ s[p + Len(CHAPTER_)] \in Digits

\* re.split(r'(?=CHAPTER \d+)', s): cut before every match of the lookahead
re_split(s) ==
    LET cuts == {p \in 1..Len(s) : MarkerAt(s, p)}
        n == Cardinality(cuts)
        from(k) == IF k = 1 THEN 1
                   ELSE CHOOSE p \in cuts : Cardinality({c \in cuts : c < p}) = k - 2
        to(k) == IF k = n + 1 THEN Len(s) ELSE from(k + 1) - 1
    IN  [k \in 1..(n + 1) |-> SubSeq(s, from(k), to(k))]

\* variant of ChapterMatches: the comparison is case-sensitive
ChapterMatchesCaseSensitive(chapter, q) == IsSubstring(q, chapter)

\* query.lower() in chapter.lower()
ChapterMatches(chapter, q) == IsSubstring(lower(q), lower(chapter))

\* re.search(r'CHAPTER \d+[:]?\s+(.*)', s): the positions where the pattern matches
TitleMatchAt(s, p) ==
    /\ MarkerAt(s, p)
    /\ LET d == RunEnd(s, p + Len(CHAPTER_), Digits)
           c == IF d <= Len(s) /\ s[d] = ":" THEN d + 1 ELSE d
       IN  c <= Len(s) /\ s[c] \in Whitespace

\* group(1) of the match at p
TitleGroup(s, p) ==
    LET d == RunEnd(s, p + Len(CHAPTER_), Digits)
        c == IF d <= Len(s) /\ s[d] = ":" THEN d + 1 ELSE d
        g == RunEnd(s, c, Whitespace)
        e == RunEnd(s, g, {s[i] : i \in 1..Len(s)} \ {NL})
    IN  SubSeq(s, g, e - 1)

\* title_match.group(1).strip() if title_match else "Unknown Chapter"
ChapterTitle(chapter) ==
    LET ms == {p \in 1..Len(chapter) : TitleMatchAt(chapter, p)}
    IN  IF ms = {} THEN UnknownChapter
        ELSE strip(TitleGroup(chapter, CHOOSE p \in ms : \A r \in ms : p <= r))

\* variant of SnippetLine: comment lines are not excluded
SnippetLineWithComments(line, q) == IsSubstring(lower(q), lower(line))

\* the condition of the list comprehension of line 43
SnippetLine(line, q) == IsSubstring(lower(q), lower(line)) /\ ~startswith(line, <<"#">>)

\* [line.strip() for line in lines if ...]
Snippets(chapter, q) ==
    LET lines == split_nl(chapter)
        sel == SelectSeq(lines, LAMBDA l : SnippetLine(l, q))
    IN  [i \in 1..Len(sel) |-> strip(sel[i])]

\* the lines a corpus is assembled from
CorpusLines == {
    CHAPTER_ \o <<"1", ":", " ", "A", "b">>,
    CHAPTER_ \o <<"2">>,
    <<"a", "b">>,
    <<"#", "a", "B">>,
    <<"a", " ">> \o CHAPTER_ \o <<"3", " ", "b">>,
    <<" ", "b", " ", "A", " ">>,
    <<>> }

Documents == {join_nl(ls) : ls \in SeqsOf(CorpusLines, 1, MaxLines)}

Queries == { <<>>, <<"b">>, <<"A", "B">>, <<"b", NL, "a">> }

SearchIdle ==
    /\ content = None /\ fileText = None /\ query = <<>>
    /\ chapters = <<>> /\ idx = 0 /\ results = <<>> /\ spc = "idle"

InitSearch ==
    /\ query \in Queries
    /\ \/ content \in Documents /\ fileText = None
       \/ content = None /\ fileText \in Documents \cup {None}
    /\ chapters = <<>> /\ idx = 0 /\ results = <<>>
    /\ spc = "start"

\* lines 23-25: no content given and no file
ReturnNoFile ==
    /\ spc = "start" /\ content = None /\ fileText = None
    /\ spc' = "done"
    /\ UNCHANGED <<content, fileText, query, chapters, idx, results, pvars, mvars>>

\* lines 26-27: read the file
ReadFile ==
    /\ spc = "start" /\ content = None /\ fileText # None
    /\ content' = fileText
    /\ UNCHANGED <<fileText, query, chapters, idx, results, spc, pvars, mvars>>

\* lines 30-32
SplitContent ==
    /\ spc = "start" /\ content # None
    /\ chapters' = re_split(content)
    /\ results' = <<>>
    /\ idx' = 1
    /\ spc' = "loop"
    /\ UNCHANGED <<content, fileText, query, pvars, mvars>>

\* lines 34-35
SkipBlankChapter ==
    /\ spc = "loop" /\ idx <= Len(chapters)
    /\ strip(chapters[idx]) = <<>>
    /\ idx' = idx + 1
    /\ UNCHANGED <<content, fileText, query, chapters, results, spc, pvars, mvars>>

\* line 36, condition false
SkipOtherChapter ==
    /\ spc = "loop" /\ idx <= Len(chapters)
    /\ strip(chapters[idx]) # <<>>
    /\ ~ChapterMatches(chapters[idx], query)
    /\ idx' = idx + 1
    /\ UNCHANGED <<content, fileText, query, chapters, results, spc, pvars, mvars>>

\* lines 36-49
AppendResult ==
    /\ spc = "loop" /\ idx <= Len(chapters)
    /\ strip(chapters[idx]) # <<>>
    /\ ChapterMatches(chapters[idx], query)
    /\ results' = Append(results, [chapter |-> ChapterTitle(chapters[idx]),
                                   content |-> strip(chapters[idx]),
                                   snippets |-> Snippets(chapters[idx], query)])
    /\ idx' = idx + 1
    /\ UNCHANGED <<content, fileText, query, chapters, spc, pvars, mvars>>

\* line 51
ReturnResults ==
    /\ spc = "loop" /\ idx > Len(chapters)
    /\ spc' = "done"
    /\ UNCHANGED <<content, fileText, query, chapters, idx, results, pvars, mvars>>

PdfIdle ==
    /\ text = <<>> /\ title = <<>> /\ lineNo = 0 /\ blocks = <<>>
    /\ injected = FALSE /\ presult = None /\ ppc = "idle"

MainIdle ==
    /\ mquery = <<>> /\ search_btn = FALSE /\ affair_btn = FALSE /\ api_key = ""
    /\ uploaded = None /\ calls = <<>> /\ shown = <<>> /\ mpc = "idle"
    /\ bundled = None /\ ret = None

NextSearch ==
    \/ ReturnNoFile
    \/ ReadFile
    \/ SplitContent
    \/ SkipBlankChapter
    \/ SkipOtherChapter
    \/ AppendResult
    \/ ReturnResults

\* a direct call of search_concepts_in_file
SearchCall == InitSearch /\ PdfIdle /\ MainIdle

SpecSearch == SearchCall /\ [][NextSearch]_vars

(***************************************************************************)
(* Properties of search_concepts_in_file                                   *)
(***************************************************************************)
Searched == spc = "done" /\ content # None

\* the candidates of split(D) that are non-blank and contain q, ignoring case
MatchingCandidates(D, q) ==
    SelectSeq(re_split(D), LAMBDA c : strip(c) # <<>> /\ IsSubstring(lower(q), lower(c)))

\* C1: for a non-empty query the returned results are, one for one and in
\* document order, the non-blank candidates of split(D) that contain the
\* query case-insensitively.
C1_ResultsAreMatchingCandidates ==
    (Searched /\ query # <<>>) =>
        LET m == MatchingCandidates(content, query)
        IN  /\ Len(results) = Len(m)
            /\ \A k \in 1..Len(results) : results[k].content = strip(m[k])

\* C1 witness: two results returned in order while a non-blank candidate
\* and a blank one were dropped
C1_Witness ==
    /\ Searched /\ query # <<>>
    /\ Len(results) >= 2
    /\ results[1].content # results[2].content
    /\ \E k \in 1..Len(chapters) : strip(chapters[k]) = <<>>
    /\ \E k \in 1..Len(chapters) :
          strip(chapters[k]) # <<>> /\ ~IsSubstring(lower(query), lower(chapters[k]))

RECURSIVE LenSum(_, _)
LenSum(seq, k) == IF k = 0 THEN 0 ELSE Len(seq[k]) + LenSum(seq, k - 1)

\* the positions of content at which a candidate after the first one begins
Boundaries == {LenSum(chapters, k - 1) + 1 : k \in 2..Len(chapters)}

\* C2: a chapter boundary sits only at the start of the document or of a
\* line; a marker in the middle of a line starts no new candidate.
C2_BoundariesAtLineStart ==
    (spc \in {"loop", "done"} /\ content # None) =>
        \A p \in Boundaries : p = 1 \/ content[p - 1] = NL

\* C3: every returned result has at least one matching line.
C3_SnippetsNonEmpty ==
    \A k \in 1..Len(results) : results[k].snippets # <<>>

\* C4: the empty query returns the empty sequence for every document.
C4_EmptyQueryEmptyResult ==
    (Searched /\ query = <<>>) => results = <<>>

\* the title as the claim describes it: taken from the first line of the
\* candidate that has the form CHAPTER <digits>[:] <whitespace> <rest>
TitleByLine(c) ==
    LET ls == split_nl(c)
        hits == {i \in 1..Len(ls) : \E p \in 1..Len(ls[i]) : TitleMatchAt(ls[i], p)}
    IN  IF hits = {} THEN UnknownChapter
        ELSE LET i == CHOOSE i \in hits : \A j \in hits : i <= j
                 p == CHOOSE p \in 1..Len(ls[i]) :
                         /\ TitleMatchAt(ls[i], p)
                         /\ \A r \in 1..(p - 1) : ~TitleMatchAt(ls[i], r)
             IN  strip(TitleGroup(ls[i], p))

\* C5: the title of a result is the trimmed remainder of the first marker
\* line of its candidate, and the fallback label when there is no such line;
\* it is never taken from another line.
C5_TitleFromMarkerLine ==
    [][(spc = "loop" /\ Len(results') > Len(results)) =>
          results'[Len(results')].chapter = TitleByLine(chapters[idx])]_vars

RECURSIVE KeptLines(_, _, _)
KeptLines(ls, q, i) ==
    IF i > Len(ls) THEN <<>>
    ELSE (IF /\ IsSubstring(lower(q), lower(ls[i]))
             /\ (ls[i] = <<>> \/ ls[i][1] # "#")
          THEN <<strip(ls[i])>> ELSE <<>>) \o KeptLines(ls, q, i + 1)

\* C6: the snippets of a result are the lines of its candidate that contain
\* the query case-insensitively and do not begin with '#', each trimmed, in
\* line order.
C6_SnippetsAreMatchingLines ==
    [][(spc = "loop" /\ Len(results') > Len(results)) =>
          results'[Len(results')].snippets = KeptLines(split_nl(chapters[idx]), query, 1)]_vars

\* C6 witness: a result with two snippets, one of them trimmed, from a
\* candidate that also has a comment line containing the query
C6_Witness ==
    /\ Searched /\ query # <<>>
    /\ \E k \in 1..Len(results) :
          /\ Len(results[k].snippets) = 2
          /\ results[k].snippets[1] # results[k].snippets[2]
    /\ IsSubstring(<<NL, "#">> \o <<"a", "B">>, content)
    /\ IsSubstring(<<" ", "b", " ", "A", " ">>, content)
    /\ Len(chapters) = 1

(***************************************************************************)
(* create_pdf                                                              *)
(*                                                                         *)
(* blocks records the calls that hand text or spacing to the layout        *)
(* engine: kind "title", "heading", "bullet", "paragraph" for multi_cell,  *)
(* "glyph" for the write of the bullet dash, "space" for ln; line is the   *)
(* number of the input line the call was made for (0: before the loop).    *)
(***************************************************************************)
\* variant of clean_text: nothing is removed
clean_text_keep_all(s) == s

\* clean_text, lines 195-197
clean_text(s) == SelectSeq(s, LAMBDA c : (32 <= ord(c) /\ ord(c) <= 126) \/ c = NL)

TitlePrefix == <<"U","P","S","C"," ","P","o","l","i","t","y"," ","N","o","t","e","s",":"," ">>

\* lines = text.split('\n')
pdf_lines == split_nl(text)

\* variant of is_blank: the test is made on the sanitized line
is_blank_sanitized(line) == strip(clean_text(line)) = <<>>

\* not line.strip(), line 210
is_blank(line) == strip(line) = <<>>

\* clean_line.startswith('#'), line 217
is_heading(line) == startswith(clean_text(line), <<"#">>)

\* clean_line.strip().startswith(('-', '*')), line 226
is_bullet(line) ==
    LET t == strip(clean_text(line))
    IN  startswith(t, <<"-">>) \/ startswith(t, <<"*">>)

\* clean_line.lstrip('#').strip(), line 220
heading_text(line) == strip(lstrip(clean_text(line), "#"))

\* re.sub(r'^[\-\*]\s*', '', s)
strip_bullet_marker(s) ==
    IF s # <<>> /\ s[1] \in {"-", "*"}
    THEN SubSeq(s, RunEnd(s, 2, Whitespace), Len(s))
    ELSE s

\* core_text, line 232
bullet_text(line) == remove_all(strip_bullet_marker(strip(clean_text(line))), <<"*", "*">>)

\* cleaned, line 245
paragraph_text(line) == strip(remove_all(clean_text(line), <<"*", "*">>))

\* The core font of the engine encodes latin-1 only: handing it any other
\* character makes the call raise.
EngineAccepts(s) == \A i \in 1..Len(s) : ord(s[i]) <= 255

Space(k) == [kind |-> "space", text |-> <<>>, line |-> k]
Cell(kd, t, k) == [kind |-> kd, text |-> t, line |-> k]

\* the engine calls of one pass of the loop body, lines 210-246
LineCalls(line, k) ==
    IF is_blank(line) THEN <<Space(k)>>
    ELSE IF is_heading(line)
         THEN <<Space(k), Cell("heading", heading_text(line), k), Space(k)>>
    ELSE IF is_bullet(line)
         THEN <<Cell("glyph", <<"-", " ">>, k), Cell("bullet", bullet_text(line), k)>>
    ELSE <<Cell("paragraph", paragraph_text(line), k)>>

Fault == <<"fault">>
Header == <<"%PDF">>

\* the lines a note text is assembled from
NoteLines == {
    <<"#", " ", "*", "*", "x", "*", "*">>,
    <<"-", " ", "*", "*", "x", "*", "*">>,
    <<"*", "*", "x", "*", "*", " ", "y">>,
    <<"y", " ", "*", "*", "x", "*", "*">>,
    <<>>,
    <<" ">>,
    <<EMOJI>>,
    <<TAB, "#", " ", "x">>,
    <<EMOJI, "-", " ", "x">>,
    <<" ", "*", " ", "x">> }

Fixture == join_nl(<< <<"#", " ", "T", "i", "t", "l", "e">>,
                      <<"-", " ", "p", "o", "i", "n", "t", " ", "o", "n", "e">>,
                      <<"-", " ", "p", "o", "i", "n", "t", " ", "t", "w", "o">>,
                      <<"p", "l", "a", "i", "n", " ", "p", "a", "r", "a", "g", "r", "a", "p", "h">> >>)

Texts == {join_nl(ls) : ls \in SeqsOf(NoteLines, 1, MaxPdfLines)} \cup {Fixture}

Titles == { <<"x">>, <<EMOJI>> }

InitPdf ==
    /\ text \in Texts /\ title \in Titles
    /\ lineNo = 0 /\ blocks = <<>> /\ injected = FALSE
    /\ presult = None /\ ppc = "start"

\* lines 187-206: page set-up and the title block
PdfTitle ==
    /\ ppc = "start"
    /\ LET safe_title == clean_text(TitlePrefix \o title)
       IN  IF EngineAccepts(safe_title)
           THEN /\ blocks' = <<Cell("title", safe_title, 0), Space(0)>>
                /\ lineNo' = 1
                /\ ppc' = "loop"
           ELSE /\ ppc' = "except"
                /\ UNCHANGED <<blocks, lineNo>>
    /\ UNCHANGED <<text, title, injected, presult, svars, mvars>>

\* lines 209-246: one pass of the loop body
PdfLine ==
    /\ ppc = "loop" /\ lineNo <= Len(pdf_lines)
    /\ LET cs == LineCalls(pdf_lines[lineNo], lineNo)
       IN  IF \A i \in 1..Len(cs) : EngineAccepts(cs[i].text)
           THEN /\ blocks' = blocks \o cs
                /\ lineNo' = lineNo + 1
                /\ ppc' = "loop"
           ELSE /\ ppc' = "except"
                /\ UNCHANGED <<blocks, lineNo>>
    /\ UNCHANGED <<text, title, injected, presult, svars, mvars>>

\* any engine call of lines 187-248 raises for a reason outside the input
PdfEngineFault ==
    /\ ppc \in {"start", "loop"}
    /\ injected' = TRUE
    /\ ppc' = "except"
    /\ UNCHANGED <<text, title, lineNo, blocks, presult, svars, mvars>>

\* line 248
PdfOutput ==
    /\ ppc = "loop" /\ lineNo > Len(pdf_lines)
    /\ presult' = <<Header \o [i \in 1..Len(blocks) |-> blocks[i].kind], None>>
    /\ ppc' = "returned"
    /\ UNCHANGED <<text, title, lineNo, blocks, injected, svars, mvars>>

\* lines 249-250
PdfExcept ==
    /\ ppc = "except"
    /\ presult' = <<None, Fault>>
    /\ ppc' = "returned"
    /\ UNCHANGED <<text, title, lineNo, blocks, injected, svars, mvars>>

NextPdf ==
    \/ PdfTitle
    \/ PdfLine
    \/ PdfEngineFault
    \/ PdfOutput
    \/ PdfExcept

\* a direct call of create_pdf
PdfCall == InitPdf /\ SearchIdle /\ MainIdle

SpecPdf == PdfCall /\ [][NextPdf]_vars

(***************************************************************************)
(* Properties of create_pdf                                                *)
(***************************************************************************)
\* C7: no exception leaves create_pdf; it returns a pair with exactly one
\* None component, (bytes, None) or (None, message); when no engine call
\* faults for a reason outside the input, the pair is (non-empty bytes,
\* None), also for input made of non-ASCII characters only.
C7_NeverRaises ==
    /\ ppc \in {"start", "loop", "except", "returned"}
    /\ ppc = "returned" =>
          /\ (presult[1] = None) # (presult[2] = None)
          /\ presult[1] = None => presult[2] = Fault
          /\ ~injected => (presult[2] = None /\ Len(presult[1]) > 0)

\* C7 witness: a text and a title of non-ASCII characters only were rendered
C7_Witness ==
    /\ ppc = "returned" /\ ~injected
    /\ text = <<EMOJI>> /\ title = <<EMOJI>>
    /\ presult[2] = None

TextKinds == {"heading", "bullet", "paragraph"}

\* C8: the text emitted for a line containing **x**, whatever its block
\* type, contains x and no asterisk.
C8_NoBoldMarkers ==
    \A i \in 1..Len(blocks) :
        (/\ blocks[i].kind \in TextKinds
         /\ IsSubstring(<<"*", "*", "x", "*", "*">>, pdf_lines[blocks[i].line]))
        => (IsSubstring(<<"x">>, blocks[i].text) /\ ~IsSubstring(<<"*">>, blocks[i].text))

\* the calls made for input line k
CallsOf(k) == SelectSeq(blocks, LAMBDA b : b.line = k)
TextCallsOf(k) == SelectSeq(blocks, LAMBDA b : b.line = k /\ b.kind \in TextKinds)
Processed == IF ppc \in {"loop", "returned"} THEN 1..(lineNo - 1) ELSE {}
InOrder == \A i \in 1..(Len(blocks) - 1) : blocks[i].line <= blocks[i + 1].line

\* C9: lines are classified in one scan and blocks emitted in input order:
\* a line blank after trimming emits spacing only; a line starting with '#'
\* one heading; a line whose trimmed form starts with '-' or '*' one bullet;
\* any other non-blank line one paragraph.
C9_ClassifiedByRawLine ==
    /\ InOrder
    /\ \A k \in Processed :
          LET l == pdf_lines[k]
              t == TextCallsOf(k)
          IN  IF strip(l) = <<>>
              THEN t = <<>> /\ CallsOf(k) # <<>>
              ELSE /\ Len(t) = 1
                   /\ t[1].kind =
                        IF startswith(l, <<"#">>) THEN "heading"
                        ELSE IF startswith(strip(l), <<"-">>) \/ startswith(strip(l), <<"*">>)
                             THEN "bullet"
                        ELSE "paragraph"

\* the line with the characters outside 32..126 removed
Sanitized(l) == SelectSeq(l, LAMBDA c : ord(c) >= 32 /\ ord(c) <= 126)

\* C9 as amended: blankness is tested on the line as given, the markers
\* '#', '-' and '*' on the line with the characters outside 32..126 removed.
C9_ClassifiedBySanitizedLine ==
    /\ InOrder
    /\ \A k \in Processed :
          LET l == pdf_lines[k]
              c == Sanitized(l)
              t == TextCallsOf(k)
          IN  IF strip(l) = <<>>
              THEN t = <<>> /\ CallsOf(k) # <<>>
              ELSE /\ Len(t) = 1
                   /\ t[1].kind =
                        IF startswith(c, <<"#">>) THEN "heading"
                        ELSE IF startswith(strip(c), <<"-">>) \/ startswith(strip(c), <<"*">>)
                             THEN "bullet"
                        ELSE "paragraph"

\* C9 witness: the four-line fixture gave heading, bullet, bullet, paragraph
C9_Witness ==
    /\ ppc = "returned" /\ text = Fixture /\ presult[2] = None
    /\ LET t == SelectSeq(blocks, LAMBDA b : b.kind \in TextKinds)
       IN  [i \in 1..Len(t) |-> t[i].kind] = <<"heading", "bullet", "bullet", "paragraph">>

(***************************************************************************)
(* main: one run of the script                                             *)
(***************************************************************************)
max_ai_results == 15

\* search_concepts_in_file as a function of the text and the query, lines 30-51
SearchResults(D, q) ==
    LET m == SelectSeq(re_split(D), LAMBDA c : strip(c) # <<>> /\ ChapterMatches(c, q))
    IN  [k \in 1..Len(m) |-> [chapter |-> ChapterTitle(m[k]),
                              content |-> strip(m[k]),
                              snippets |-> Snippets(m[k], q)]]

\* variant of not_query: the test for a missing query is absent
not_query_absent(q) == FALSE

\* not query, line 289
not_query(q) == q = <<>>

Err == <<"error">>
Notes == { <<"#", " ", "x">>, <<EMOJI>> }
Events == <<"events">>
MainDocs == { CHAPTER_ \o <<"1", ":", " ", "A", "b">>, <<"a", "b">> }
MainQueries == { <<>>, <<"b">>, <<"z">> }
Suffix == <<"_","C","u","r","r","e","n","t","_","A","f","f","a","i","r","s">>

Call(f, q) == [fn |-> f, query |-> q]
Pressed == search_btn \/ affair_btn

InitMain ==
    /\ mquery \in MainQueries
    /\ search_btn \in BOOLEAN /\ affair_btn \in BOOLEAN
    /\ api_key \in {"", "key"}
    /\ uploaded \in MainDocs \cup {None}
    /\ bundled \in MainDocs \cup {None}
    /\ calls = <<>> /\ shown = <<>> /\ ret = None
    /\ mpc = "start"

\* line 288, condition false
MainNoInput ==
    /\ mpc = "start" /\ ~Pressed /\ mquery = <<>>
    /\ mpc' = "end"
    /\ UNCHANGED <<mquery, search_btn, affair_btn, api_key, uploaded, calls, shown, bundled, ret, svars, pvars>>

\* lines 289-291
MainWarnEmpty ==
    /\ mpc = "start" /\ Pressed /\ not_query(mquery)
    /\ shown' = Append(shown, "warning: enter a concept")
    /\ mpc' = "end"
    /\ UNCHANGED <<mquery, search_btn, affair_btn, api_key, uploaded, calls, bundled, ret, svars, pvars>>

\* lines 292-294
MainAffairNoKey ==
    /\ mpc = "start" /\ (Pressed \/ mquery # <<>>) /\ ~not_query(mquery)
    /\ affair_btn /\ api_key = ""
    /\ shown' = Append(shown, "warning: enter api key")
    /\ mpc' = "end"
    /\ UNCHANGED <<mquery, search_btn, affair_btn, api_key, uploaded, calls, bundled, ret, svars, pvars>>

\* lines 295-297
MainFetchAffairs ==
    /\ mpc = "start" /\ (Pressed \/ mquery # <<>>) /\ ~not_query(mquery)
    /\ affair_btn /\ api_key # ""
    /\ calls' = Append(calls, Call("fetch_current_affairs", mquery))
    /\ ret' \in {<<None, Err>>, <<Events, None>>}
    /\ mpc' = "fetched"
    /\ UNCHANGED <<mquery, search_btn, affair_btn, api_key, uploaded, shown, bundled, svars, pvars>>

\* lines 298-299
MainAffairsError ==
    /\ mpc = "fetched" /\ ret[2] # None
    /\ shown' = Append(shown, "error")
    /\ mpc' = "end"
    /\ UNCHANGED <<mquery, search_btn, affair_btn, api_key, uploaded, calls, bundled, ret, svars, pvars>>

\* lines 300-321
MainAffairNotes ==
    /\ mpc = "fetched" /\ ret[2] = None
    /\ shown' = Append(shown, "events")
    /\ calls' = Append(calls, Call("generate_affair_notes", mquery))
    /\ ret' \in {<<None, Err>>} \cup {<<n, None>> : n \in Notes}
    /\ mpc' = "af_notes"
    /\ UNCHANGED <<mquery, search_btn, affair_btn, api_key, uploaded, bundled, svars, pvars>>

\* lines 341-348
MainSearch ==
    /\ mpc = "start" /\ (Pressed \/ mquery # <<>>) /\ ~not_query(mquery)
    /\ ~affair_btn /\ search_btn
    /\ calls' = Append(calls, Call("search_concepts_in_file", mquery))
    /\ ret' = IF uploaded # None THEN SearchResults(uploaded, mquery)
              ELSE IF bundled # None THEN SearchResults(bundled, mquery)
              ELSE <<>>
    /\ mpc' = "searched"
    /\ UNCHANGED <<mquery, search_btn, affair_btn, api_key, uploaded, shown, bundled, svars, pvars>>

\* the if chain of lines 289-341 has no branch: a query typed, no button pressed
MainTypedOnly ==
    /\ mpc = "start" /\ (Pressed \/ mquery # <<>>) /\ ~not_query(mquery)
    /\ ~affair_btn /\ ~search_btn
    /\ mpc' = "end"
    /\ UNCHANGED <<mquery, search_btn, affair_btn, api_key, uploaded, calls, shown, bundled, ret, svars, pvars>>

\* lines 350-351
MainNoMentions ==
    /\ mpc = "searched" /\ ret = <<>>
    /\ shown' = Append(shown, "info: no mentions")
    /\ mpc' = "end"
    /\ UNCHANGED <<mquery, search_btn, affair_btn, api_key, uploaded, calls, bundled, ret, svars, pvars>>

\* lines 352-376
MainResultsNoKey ==
    /\ mpc = "searched" /\ ret # <<>> /\ api_key = ""
    /\ shown' = shown \o <<"results", "warning: enter api key">>
    /\ mpc' = "end"
    /\ UNCHANGED <<mquery, search_btn, affair_btn, api_key, uploaded, calls, bundled, ret, svars, pvars>>

\* lines 352-387
MainNotes ==
    /\ mpc = "searched" /\ ret # <<>> /\ api_key # ""
    /\ shown' = shown \o (IF Len(ret) > max_ai_results
                          THEN <<"results", "info: top chapters only">>
                          ELSE <<"results">>)
    /\ calls' = Append(calls, Call("generate_ai_notes", mquery))
    /\ ret' \in {<<None, Err>>} \cup {<<n, None>> : n \in Notes}
    /\ mpc' = "notes"
    /\ UNCHANGED <<mquery, search_btn, affair_btn, api_key, uploaded, bundled, svars, pvars>>

\* lines 322-323 and 389-390
MainNotesError ==
    /\ mpc \in {"af_notes", "notes"} /\ ret[2] # None
    /\ shown' = Append(shown, "error")
    /\ mpc' = "end"
    /\ UNCHANGED <<mquery, search_btn, affair_btn, api_key, uploaded, calls, bundled, ret, svars, pvars>>

\* lines 324-328 and 391-395
MainCreatePdf ==
    /\ mpc \in {"af_notes", "notes"} /\ ret[2] = None
    /\ shown' = Append(shown, "notes")
    /\ calls' = Append(calls, Call("create_pdf",
                                   IF mpc = "af_notes" THEN mquery \o Suffix ELSE mquery))
    /\ ret' \in {<<None, Fault>>, <<Header, None>>}
    /\ mpc' = "pdf"
    /\ UNCHANGED <<mquery, search_btn, affair_btn, api_key, uploaded, bundled, svars, pvars>>

\* lines 329-338 and 396-405
MainOfferPdf ==
    /\ mpc = "pdf"
    /\ shown' = Append(shown, IF ret[2] # None THEN "error: no pdf" ELSE "download")
    /\ mpc' = "end"
    /\ UNCHANGED <<mquery, search_btn, affair_btn, api_key, uploaded, calls, bundled, ret, svars, pvars>>

NextMain ==
    \/ MainNoInput
    \/ MainWarnEmpty
    \/ MainAffairNoKey
    \/ MainFetchAffairs
    \/ MainAffairsError
    \/ MainAffairNotes
    \/ MainSearch
    \/ MainTypedOnly
    \/ MainNoMentions
    \/ MainResultsNoKey
    \/ MainNotes
    \/ MainNotesError
    \/ MainCreatePdf
    \/ MainOfferPdf

\* a run of the script
MainRun == InitMain /\ SearchIdle /\ PdfIdle

SpecMain == MainRun /\ [][NextMain]_vars

(***************************************************************************)
(* Properties of main                                                      *)
(***************************************************************************)
\* C10: with an empty query no helper is called in the run; a button pressed
\* with an empty query ends the run with the warning; main never calls
\* search_concepts_in_file with an empty query.
C10_EmptyQueryRejected ==
    /\ mquery = <<>> => calls = <<>>
    /\ (mpc = "end" /\ mquery = <<>> /\ Pressed) => shown = <<"warning: enter a concept">>
    /\ \A i \in 1..Len(calls) :
          calls[i].fn = "search_concepts_in_file" => calls[i].query # <<>>

\* C10 witness: a button was pressed with the empty query and the run ended
C10_Witness ==
    /\ mpc = "end" /\ mquery = <<>> /\ search_btn
    /\ shown = <<"warning: enter a concept">>

====
